---------------------------- MODULE Spec2Model ----------------------------
(***************************************************************************)
(* Model of the SmartGov Ex-Gratia chatbot ("Sikkim chatbot/smartgov_bot"):*)
(* the rule-based intent classifier, the application-ID extractor, the     *)
(* status lookup over the CSV status store and the per-user dialog state   *)
(* (context.user_data['waiting_for_app_id']).                              *)
(*                                                                         *)
(* Texts are sequences of one-character strings, so that lower(), upper(), *)
(* substring tests and the regular expressions are computed character by   *)
(* character as Python computes them.                                      *)
(***************************************************************************)
EXTENDS Integers, Sequences, FiniteSets, TLC

VARIABLES
  waiting,   \* waiting[c]: context.user_data.get('waiting_for_app_id') of user c
  store,     \* the content of Config.STATUS_CSV_FILE as pd.read_csv finds it
  last,      \* last[c]: what the handler of the latest update of user c did
  files,     \* the content files of Config.DATA_DIR as the constructor finds them
  exgratia_norms,        \* self.exgratia_norms, line 19
  application_procedure  \* self.application_procedure, line 20

vars == <<waiting, store, last, files, exgratia_norms, application_procedure>>

---------------------------------------------------------------------------
(* Characters and Python's str.lower / str.upper / "in" on ASCII text.     *)

LowerLetters ==
  <<"a","b","c","d","e","f","g","h","i","j","k","l","m",
    "n","o","p","q","r","s","t","u","v","w","x","y","z">>

UpperLetters ==
  <<"A","B","C","D","E","F","G","H","I","J","K","L","M",
    "N","O","P","Q","R","S","T","U","V","W","X","Y","Z">>

Digits == {"0","1","2","3","4","5","6","7","8","9"}

IsLower(c) == \E i \in 1..26 : LowerLetters[i] = c

IsUpper(c) == \E i \in 1..26 : UpperLetters[i] = c

\* an upper-case letter outside ASCII: U+212A (Kelvin sign), whose lower() is
\* the ASCII "k" and whose upper() is itself
Kelvin == "U+212A"

LowerChar(c) ==
  IF IsUpper(c) THEN LowerLetters[CHOOSE i \in 1..26 : UpperLetters[i] = c]
  ELSE IF c = Kelvin THEN "k"
  ELSE c

\* a letter outside ASCII: U+00DF, whose upper() is "SS" and whose lower() is
\* itself
Eszett == "U+00DF"

UpperChar(c) ==
  IF IsLower(c) THEN UpperLetters[CHOOSE i \in 1..26 : LowerLetters[i] = c] ELSE c

lower(s) == [i \in 1..Len(s) |-> LowerChar(s[i])]

\* str.upper() of one character: one character, or two for U+00DF
UpperOf(c) == IF c = Eszett THEN <<"S", "S">> ELSE <<UpperChar(c)>>

RECURSIVE upper(_)
upper(s) == IF s = <<>> THEN <<>> ELSE UpperOf(Head(s)) \o upper(Tail(s))

\* str.swapcase() of one character
SwapOf(c) ==
  IF IsUpper(c) \/ c = Kelvin THEN <<LowerChar(c)>> ELSE UpperOf(c)

RECURSIVE swapcase(_)
swapcase(s) == IF s = <<>> THEN <<>> ELSE SwapOf(Head(s)) \o swapcase(Tail(s))

\* Python: p in s   (substring test)
Contains(s, p) ==
  \E i \in 1..(Len(s) - Len(p) + 1) : SubSeq(s, i, i + Len(p) - 1) = p

\* Python: any(w in s for w in ws)
AnyIn(ws, s) == \E k \in 1..Len(ws) : Contains(s, ws[k])

---------------------------------------------------------------------------
(* The messages users send.                                                *)

Msg_check == <<"c","h","e","c","k">>

Msg_id == <<"2","3","L","D","M","7","8","6">>

Msg_hello == <<"H","e","l","l","o">>

Msg_norms == <<"n","o","r","m","s">>

Msg_apply == <<"a","p","p","l","y">>

Msg_help == <<"h","e","l","p">>

Msg_ok == <<"o","k">>

Msg_track_two == <<"t","r","a","c","k"," ","2","3","l","d","m","7","8","6"," ","9","9","X","Y","Z","1","2","3">>

Msg_money_id == <<"m","o","n","e","y"," ","1","2","3","4","5","6">>

Msg_eligibility == <<"e","l","i","g","i","b","i","l","i","t","y">>

Msg_app_id == <<"m","y"," ","a","p","p"," ","i","d","?">>

Texts ==
  { Msg_check, Msg_id, Msg_hello, Msg_norms, Msg_apply, Msg_help, Msg_ok,
    Msg_track_two, Msg_money_id, Msg_eligibility, Msg_app_id }

\* further messages: the examples of the help and fallback texts and of the
\* specification, ID-shaped tokens at the length limits, other boundaries
Msg_elig_apply ==
  <<"W","h","a","t"," ","i","s"," ","t","h","e"," ","e","l","i","g","i",
    "b","i","l","i","t","y"," ","a","n","d"," ","h","o","w"," ","d","o",
    " ","I"," ","a","p","p","l","y","?">>

Msg_hi_apply_amount ==
  <<"h","i",","," ","h","o","w"," ","t","o"," ","a","p","p","l","y"," ",
    "f","o","r"," ","r","e","l","i","e","f"," ","a","m","o","u","n","t">>

Msg_help_status_id ==
  <<"C","h","e","c","k"," ","s","t","a","t","u","s"," ","o","f"," ","a",
    "p","p","l","i","c","a","t","i","o","n"," ","2","3","L","D","M","7",
    "8","6">>

Msg_fallback_status ==
  <<"C","h","e","c","k"," ","m","y"," ","a","p","p","l","i","c","a","t",
    "i","o","n"," ","s","t","a","t","u","s">>

Msg_help_money ==
  <<"H","o","w"," ","m","u","c","h"," ","m","o","n","e","y"," ","c","a",
    "n"," ","I"," ","g","e","t"," ","f","o","r"," ","h","o","u","s","e",
    " ","d","a","m","a","g","e","?">>

Msg_help_documents ==
  <<"W","h","a","t"," ","d","o","c","u","m","e","n","t","s"," ","d","o",
    " ","I"," ","n","e","e","d"," ","t","o"," ","a","p","p","l","y","?">>

Msg_my_id_thanks ==
  <<"M","y"," ","i","d"," ","i","s"," ","2","3","L","D","M","7","8","6",
    ","," ","t","h","a","n","k","s">>

Msg_run5 ==
  <<"a","b","1","2","c">>

Msg_run6 ==
  <<"a","b","1","2","c","d">>

Msg_run12 ==
  <<"a","b","c","d","e","f","1","2","3","4","5","6">>

Msg_run13 ==
  <<"a","b","c","d","e","f","1","2","3","4","5","6","7">>

Msg_runs_punct ==
  <<"n","o",":"," ","a","b","1","2","c",","," ","a","b","c","d","e","f",
    "1","2","3","4","5","6","7",".">>

Msg_underscore ==
  <<"r","e","f","_","2","3","L","D","M","7","8","6">>

Msg_underscore_run6 ==
  <<"i","d","_","a","b","1","2","c","d">>

Msg_eszett ==
  <<Eszett,Eszett,Eszett>>

Msg_kelvin ==
  <<"a","b","c","d","e",Kelvin>>

ProbeTexts ==
  { Msg_check, Msg_hello, Msg_elig_apply, Msg_hi_apply_amount,
    Msg_help_status_id, Msg_fallback_status, Msg_help_money,
    Msg_help_documents, Msg_my_id_thanks, Msg_run5, Msg_run6, Msg_run12,
    Msg_run13, Msg_runs_punct, Msg_underscore, Msg_underscore_run6,
    Msg_eszett, Msg_kelvin }

\* every message of the model, with its upper(), lower() and swapcase()
KnownTexts ==
  LET all == Texts \cup ProbeTexts IN
  all \cup {upper(text) : text \in all} \cup {lower(text) : text \in all}
      \cup {swapcase(text) : text \in all}

---------------------------------------------------------------------------
(* The regular expressions \b[A-Z0-9]{6,12}\b and \b[a-z0-9]{6,12}\b.      *)

MinIdLen == 6

MaxIdLen == 12

\* \w of the re module on the characters used here
IsWordChar(c) ==
  \/ IsLower(c) \/ IsUpper(c) \/ c \in Digits \/ c = "_"
  \/ c = Eszett \/ c = Kelvin

\* [A-Z0-9]
IsUpperAlnum(c) == IsUpper(c) \/ c \in Digits

\* [a-z0-9]
IsLowerAlnum(c) == IsLower(c) \/ c \in Digits

WordAt(s, p) == p >= 1 /\ p <= Len(s) /\ IsWordChar(s[p])

\* \b between the characters at positions p-1 and p
WordBoundary(s, p) == WordAt(s, p - 1) # WordAt(s, p)

\* membership of c in the character class of a pattern
InClass(class, c) ==
  IF class = "A-Z0-9" THEN IsUpperAlnum(c) ELSE IsLowerAlnum(c)

\* \b[class]{n}\b matches s at position i
MatchAt(s, i, n, class) ==
  /\ i + n - 1 <= Len(s)
  /\ \A k \in i..(i + n - 1) : InClass(class, s[k])
  /\ WordBoundary(s, i)
  /\ WordBoundary(s, i + n)

MatchLens(s, i, class) == {n \in MinIdLen..MaxIdLen : MatchAt(s, i, n, class)}

\* the greedy quantifier takes the longest repetition that lets \b succeed
GreedyLen(s, i, class) ==
  CHOOSE n \in MatchLens(s, i, class) : \A m \in MatchLens(s, i, class) : m <= n

\* re.findall(pattern, s): left to right, non-overlapping
RECURSIVE FindAllFrom(_, _)
FindAllFrom(s, i) ==
  IF i > Len(s) THEN <<>>
  ELSE IF MatchLens(s, i, "A-Z0-9") # {}
       THEN <<SubSeq(s, i, i + GreedyLen(s, i, "A-Z0-9") - 1)>>
              \o FindAllFrom(s, i + GreedyLen(s, i, "A-Z0-9"))
       ELSE FindAllFrom(s, i + 1)

\* the extractor on the messages of the model, computed once
IdsOf == [text \in KnownTexts |-> FindAllFrom(upper(text), 1)]

\* re.findall(r'\b[A-Z0-9]{6,12}\b', message.upper())
extractApplicationIds(message) ==
  IF message \in KnownTexts THEN IdsOf[message]
  ELSE FindAllFrom(upper(message), 1)

\* re.search(r'\b[a-z0-9]{6,12}\b', message_lower) is not None
SearchIdToken(message_lower) ==
  \E i \in 1..Len(message_lower) : MatchLens(message_lower, i, "a-z0-9") # {}

---------------------------------------------------------------------------
(* The rule tables of fallback_intent_detection.                           *)

greeting_words ==
  << <<"h","e","l","l","o">>,
     <<"h","i">>,
     <<"s","t","a","r","t">>,
     <<"h","e","y">>,
     <<"n","a","m","a","s","t","e">>,
     <<"g","o","o","d"," ","m","o","r","n","i","n","g">>,
     <<"g","o","o","d"," ","a","f","t","e","r","n","o","o","n">>,
     <<"g","o","o","d"," ","e","v","e","n","i","n","g">> >>

norms_phrases ==
  << <<"n","o","r","m","s">>,
     <<"a","m","o","u","n","t">>,
     <<"m","o","n","e","y">>,
     <<"e","l","i","g","i","b","i","l","i","t","y">>,
     <<"h","o","w"," ","m","u","c","h">>,
     <<"r","a","t","e">>,
     <<"c","o","m","p","e","n","s","a","t","i","o","n">>,
     <<"h","o","u","s","e"," ","d","a","m","a","g","e">>,
     <<"c","r","o","p"," ","l","o","s","s">>,
     <<"l","i","v","e","s","t","o","c","k">>,
     <<"i","n","j","u","r","y">>,
     <<"d","e","a","t","h">>,
     <<"r","e","l","i","e","f"," ","a","m","o","u","n","t">>,
     <<"s","a","n","c","t","i","o","n">>,
     <<"c","r","i","t","e","r","i","a">>,
     <<"e","l","i","g","i","b","l","e">>,
     <<"q","u","a","l","i","f","y">>,
     <<"e","n","t","i","t","l","e">> >>

procedure_phrases ==
  << <<"a","p","p","l","y">>,
     <<"a","p","p","l","i","c","a","t","i","o","n">>,
     <<"p","r","o","c","e","d","u","r","e">>,
     <<"p","r","o","c","e","s","s">>,
     <<"h","o","w"," ","t","o">>,
     <<"d","o","c","u","m","e","n","t","s">>,
     <<"s","u","b","m","i","t">>,
     <<"s","t","e","p","s">>,
     <<"g","r","a","m"," ","p","a","n","c","h","a","y","a","t">>,
     <<"w","a","r","d"," ","o","f","f","i","c","e">>,
     <<"r","e","q","u","i","r","e","m","e","n","t","s">>,
     <<"f","o","r","m">>,
     <<"p","a","p","e","r","w","o","r","k">>,
     <<"w","h","e","r","e"," ","t","o"," ","a","p","p","l","y">>,
     <<"w","h","e","n"," ","t","o"," ","a","p","p","l","y">> >>

status_phrases ==
  << <<"s","t","a","t","u","s">>,
     <<"c","h","e","c","k">>,
     <<"t","r","a","c","k">>,
     <<"a","p","p","l","i","c","a","t","i","o","n"," ","i","d">>,
     <<"a","p","p"," ","i","d">>,
     <<"r","e","f","e","r","e","n","c","e">>,
     <<"p","r","o","g","r","e","s","s">>,
     <<"u","p","d","a","t","e">>,
     <<"a","p","p","r","o","v","e","d">>,
     <<"p","e","n","d","i","n","g">>,
     <<"r","e","j","e","c","t","e","d">>,
     <<"s","a","n","c","t","i","o","n","e","d">> >>

help_words ==
  << <<"h","e","l","p">>,
     <<"s","u","p","p","o","r","t">>,
     <<"a","s","s","i","s","t">>,
     <<"g","u","i","d","a","n","c","e">>,
     <<"i","n","f","o","r","m","a","t","i","o","n">>,
     <<"c","o","n","t","a","c","t">>,
     <<"p","h","o","n","e">>,
     <<"n","u","m","b","e","r">> >>

question_words ==
  << <<"w","h","a","t">>,
     <<"h","o","w">>,
     <<"w","h","e","n">>,
     <<"w","h","e","r","e">>,
     <<"w","h","y">>,
     <<"w","h","i","c","h">> >>

document_words ==
  << <<"d","o","c","u","m","e","n","t">>,
     <<"p","a","p","e","r">>,
     <<"c","e","r","t","i","f","i","c","a","t","e">>,
     <<"p","r","o","o","f">> >>

money_words ==
  << <<"m","o","n","e","y">>,
     <<"a","m","o","u","n","t">>,
     <<"r","u","p","e","e">>,
     <<"c","o","m","p","e","n","s","a","t","i","o","n">> >>

\* the rules with the ID-token test made on the message as typed
FirstMatchingRule_token_on_raw(message) ==
  LET message_lower == lower(message) IN
  IF AnyIn(greeting_words, message_lower) THEN "greeting"
  ELSE IF AnyIn(norms_phrases, message_lower) THEN "exgratia_norms"
  ELSE IF AnyIn(procedure_phrases, message_lower) THEN "application_procedure"
  ELSE IF AnyIn(status_phrases, message_lower) \/ SearchIdToken(message)
       THEN "status_check"
  ELSE IF AnyIn(help_words, message_lower) THEN "help"
  ELSE IF AnyIn(question_words, message_lower) /\ AnyIn(document_words, message_lower)
       THEN "application_procedure"
  ELSE IF AnyIn(question_words, message_lower) /\ AnyIn(money_words, message_lower)
       THEN "exgratia_norms"
  ELSE "other"

\* the rules with the remote classifier's label apply_start for the word
\* "apply"
FirstMatchingRule_apply_start(message) ==
  LET message_lower == lower(message) IN
  IF AnyIn(greeting_words, message_lower) THEN "greeting"
  ELSE IF AnyIn(norms_phrases, message_lower) THEN "exgratia_norms"
  ELSE IF Contains(message_lower, <<"a","p","p","l","y">>) THEN "apply_start"
  ELSE IF AnyIn(procedure_phrases, message_lower) THEN "application_procedure"
  ELSE IF AnyIn(status_phrases, message_lower) \/ SearchIdToken(message_lower)
       THEN "status_check"
  ELSE IF AnyIn(help_words, message_lower) THEN "help"
  ELSE IF AnyIn(question_words, message_lower) /\ AnyIn(document_words, message_lower)
       THEN "application_procedure"
  ELSE IF AnyIn(question_words, message_lower) /\ AnyIn(money_words, message_lower)
       THEN "exgratia_norms"
  ELSE "other"

\* the rules with the procedure group tested before the norms group
FirstMatchingRule_procedure_first(message) ==
  LET message_lower == lower(message) IN
  IF AnyIn(greeting_words, message_lower) THEN "greeting"
  ELSE IF AnyIn(procedure_phrases, message_lower) THEN "application_procedure"
  ELSE IF AnyIn(norms_phrases, message_lower) THEN "exgratia_norms"
  ELSE IF AnyIn(status_phrases, message_lower) \/ SearchIdToken(message_lower)
       THEN "status_check"
  ELSE IF AnyIn(help_words, message_lower) THEN "help"
  ELSE "other"

\* the rules of SmartGovBot.fallback_intent_detection, in their order
FirstMatchingRule(message) ==
  LET message_lower == lower(message) IN
  IF AnyIn(greeting_words, message_lower) THEN "greeting"
  ELSE IF AnyIn(norms_phrases, message_lower) THEN "exgratia_norms"
  ELSE IF AnyIn(procedure_phrases, message_lower) THEN "application_procedure"
  ELSE IF AnyIn(status_phrases, message_lower) \/ SearchIdToken(message_lower)
       THEN "status_check"
  ELSE IF AnyIn(help_words, message_lower) THEN "help"
  ELSE IF AnyIn(question_words, message_lower) /\ AnyIn(document_words, message_lower)
       THEN "application_procedure"
  ELSE IF AnyIn(question_words, message_lower) /\ AnyIn(money_words, message_lower)
       THEN "exgratia_norms"
  ELSE "other"

\* the classifier on the messages of the model, computed once
IntentOf == [text \in KnownTexts |-> FirstMatchingRule(text)]

\* SmartGovBot.fallback_intent_detection
fallback_intent_detection(message) ==
  IF message \in KnownTexts THEN IntentOf[message]
  ELSE FirstMatchingRule(message)

\* a classifier that answers "other" instead of falling back on the rules
get_intent_from_llm_no_fallback(message) == "other"

\* a classifier that keeps context: everything is a status check while some
\* user is awaited
get_intent_from_llm_stateful(message) ==
  IF \E c \in DOMAIN waiting : waiting[c] THEN "status_check"
  ELSE fallback_intent_detection(message)

\* SmartGovBot.get_intent_from_llm: the remote call is disabled, the rules decide
get_intent_from_llm(message) == fallback_intent_detection(message)

---------------------------------------------------------------------------
(* The status store: data/status.csv as pandas.read_csv sees it.           *)

MaxRows == 1

Id_lower == <<"2","3","l","d","m","7","8","6">>

Id_upper == <<"2","3","L","D","M","7","8","6">>

Id_digits == <<"1","2","3","4","5","6">>

Amount_number == <<"5","0","0","0","0">>

Amount_text == <<"N","/","A">>

StoreIds == {Id_lower, Id_upper, Id_digits}

StoreAmounts == {Amount_number, Amount_text}

Rows == [application_id : StoreIds, amount : StoreAmounts]

RowSeqs == UNION {[1..n -> Rows] : n \in 0..MaxRows}

\* "ok": the file parses; "missing": FileNotFoundError; "unreadable":
\* PermissionError; "malformed": a row with more fields than the header
\* (pandas.errors.ParserError)
Stores ==
  [file : {"ok"}, rows : RowSeqs]
    \cup [file : {"missing", "unreadable", "malformed"}, rows : {<<>>}]

\* a CSV field that pandas parses as an integer
AllDigits(field) == Len(field) > 0 /\ \A i \in 1..Len(field) : field[i] \in Digits

\* dtype of a column read by read_csv: int64 when every field is a number,
\* object (Python str values) otherwise; an empty column is object
ColumnIsNumeric(rows, col) ==
  Len(rows) > 0 /\ \A i \in 1..Len(rows) : AllDigits(rows[i][col])

\* df[df['application_id'].str.upper() == app_id.upper()], in row order
MatchingRows(rows, app_id) ==
  SelectSeq(rows, LAMBDA row : upper(row.application_id) = upper(app_id))

\* the exception, if any, raised inside the try block of check_application_status
\* before the view is built
LookupException(st, app_id) ==
  IF st.file # "ok" THEN "read_csv"
  ELSE IF ColumnIsNumeric(st.rows, "application_id") THEN "str_accessor"
  ELSE IF MatchingRows(st.rows, app_id) # <<>> /\ ~ColumnIsNumeric(st.rows, "amount")
       THEN "format_amount"
  ELSE "none"

---------------------------------------------------------------------------
(* Updates and what a handler has done so far.                             *)

Users == {"u1", "u2"}

ButtonData == {"option_1", "option_2", "option_3", "help", "back_to_menu"}

CommandUpdate(name) == [kind |-> "command", data |-> name, text |-> <<>>]

CallbackUpdate(data) == [kind |-> "callback", data |-> data, text |-> <<>>]

MessageUpdate(text) == [kind |-> "message", data |-> "-", text |-> text]

\* update.message is None for a callback query update
HasMessage(update) == update.kind # "callback"

\* the run of one handler: w is user_data's flag, raised an exception that
\* left the handler
Begin(w) ==
  [w |-> w, classified |-> FALSE, intent |-> "-", views |-> <<>>,
   lookups |-> <<>>, found |-> <<>>, echoed |-> <<>>, failure |-> "none",
   raised |-> FALSE]

View(name, via) == [name |-> name, via |-> via]

\* await update.message.reply_text(...)
reply_text(update, r, name) ==
  IF HasMessage(update)
  THEN [r EXCEPT !.views = Append(@, View(name, "reply"))]
  ELSE [r EXCEPT !.raised = TRUE]

\* if update.callback_query: edit_message_text(...) else: reply_text(...)
edit_or_reply(update, r, name) ==
  IF update.kind = "callback"
  THEN [r EXCEPT !.views = Append(@, View(name, "edit"))]
  ELSE reply_text(update, r, name)

---------------------------------------------------------------------------
(* The handlers of SmartGovBot.                                            *)

\* start_command that also drops the pending wait
start_command_resets(update, r) ==
  LET sent == reply_text(update, r, "welcome") IN
  IF sent.raised THEN sent ELSE [sent EXCEPT !.w = FALSE]

start_command(update, r) == reply_text(update, r, "welcome")

help_command(update, r) == reply_text(update, r, "help")

handle_other_intent(update, r) == reply_text(update, r, "fallback")

show_exgratia_norms(update, r) == edit_or_reply(update, r, "norms")

show_application_procedure(update, r) == edit_or_reply(update, r, "procedure")

\* ask_for_application_id without line 293
ask_for_application_id_no_flag(update, r) ==
  edit_or_reply(update, r, "status_prompt")

ask_for_application_id(update, r) ==
  LET sent == edit_or_reply(update, r, "status_prompt") IN
  IF sent.raised THEN sent ELSE [sent EXCEPT !.w = TRUE]

\* the try block: read the store, select the rows, build and send the view
LookupTry(update, r, st, app_id) ==
  LET exc == LookupException(st, app_id)
      result == MatchingRows(st.rows, app_id)
  IN IF exc # "none" THEN [r EXCEPT !.failure = exc, !.raised = TRUE]
     ELSE IF result # <<>>
          THEN reply_text(update, [r EXCEPT !.found = Append(@, result[1])],
                          "status_found")
          ELSE reply_text(update, [r EXCEPT !.echoed = Append(@, app_id)],
                          "status_not_found")

\* check_application_status without line 350
check_application_status_keeps_flag(update, r, st, app_id) ==
  LET called == [r EXCEPT !.lookups = Append(@, app_id)]
      tried == LookupTry(update, called, st, app_id)
  IN IF tried.raised
     THEN reply_text(update, [called EXCEPT !.failure = tried.failure],
                     "status_error")
     ELSE tried

\* check_application_status with line 350 moved to the end of the try block
check_application_status_pop_in_try(update, r, st, app_id) ==
  LET called == [r EXCEPT !.lookups = Append(@, app_id)]
      tried == LookupTry(update, called, st, app_id)
  IN IF tried.raised
     THEN reply_text(update, [called EXCEPT !.failure = tried.failure],
                     "status_error")
     ELSE [tried EXCEPT !.w = FALSE]

\* check_application_status whose except branch reports "not found"
check_application_status_not_found_on_error(update, r, st, app_id) ==
  LET called == [r EXCEPT !.lookups = Append(@, app_id)]
      tried == LookupTry(update, called, st, app_id)
      done == IF tried.raised
              THEN reply_text(update,
                     [called EXCEPT !.failure = tried.failure,
                                    !.echoed = Append(@, app_id)],
                     "status_not_found")
              ELSE tried
  IN IF done.raised THEN done ELSE [done EXCEPT !.w = FALSE]

check_application_status(update, r, st, app_id) ==
  LET called == [r EXCEPT !.lookups = Append(@, app_id)]
      tried == LookupTry(update, called, st, app_id)
      \* except Exception: the generic error text
      done == IF tried.raised
              THEN reply_text(update,
                     [called EXCEPT !.failure = tried.failure], "status_error")
              ELSE tried
  IN IF done.raised THEN done ELSE [done EXCEPT !.w = FALSE]

\* handle_intent whose status_check branch never looks at the message
handle_intent_always_asks(update, r, st, intent, message) ==
  IF intent = "greeting" THEN start_command(update, r)
  ELSE IF intent = "exgratia_norms" THEN show_exgratia_norms(update, r)
  ELSE IF intent \in {"application_procedure", "apply_start"}
       THEN show_application_procedure(update, r)
  ELSE IF intent = "status_check" THEN ask_for_application_id(update, r)
  ELSE IF intent = "help" THEN help_command(update, r)
  ELSE handle_other_intent(update, r)

\* handle_intent with the norms and procedure branches exchanged
handle_intent_swapped(update, r, st, intent, message) ==
  IF intent = "greeting" THEN start_command(update, r)
  ELSE IF intent = "exgratia_norms" THEN show_application_procedure(update, r)
  ELSE IF intent \in {"application_procedure", "apply_start"}
       THEN show_exgratia_norms(update, r)
  ELSE IF intent = "status_check"
       THEN LET app_ids == extractApplicationIds(message) IN
            IF app_ids # <<>>
            THEN check_application_status(update, r, st, app_ids[1])
            ELSE ask_for_application_id(update, r)
  ELSE IF intent = "help" THEN help_command(update, r)
  ELSE handle_other_intent(update, r)

handle_intent(update, r, st, intent, message) ==
  IF intent = "greeting" THEN start_command(update, r)
  ELSE IF intent = "exgratia_norms" THEN show_exgratia_norms(update, r)
  ELSE IF intent \in {"application_procedure", "apply_start"}
       THEN show_application_procedure(update, r)
  ELSE IF intent = "status_check"
       THEN LET app_ids == extractApplicationIds(message) IN
            IF app_ids # <<>>
            THEN check_application_status(update, r, st, app_ids[1])
            ELSE ask_for_application_id(update, r)
  ELSE IF intent = "help" THEN help_command(update, r)
  ELSE handle_other_intent(update, r)

\* message_handler that looks up app_ids[-1] instead of app_ids[0]
message_handler_last_id(update, r, st) ==
  LET message == update.text
      app_ids == extractApplicationIds(message)
      intent == get_intent_from_llm(message)
  IN IF r.w /\ app_ids # <<>>
     THEN check_application_status(update, r, st, app_ids[Len(app_ids)])
     ELSE handle_intent(update,
            [r EXCEPT !.classified = TRUE, !.intent = intent], st, intent, message)

\* message_handler that gives up the wait when the message holds no ID
message_handler_drops_wait(update, r, st) ==
  LET message == update.text
      app_ids == extractApplicationIds(message)
      intent == get_intent_from_llm(message)
  IN IF r.w /\ app_ids # <<>>
     THEN check_application_status(update, r, st, app_ids[1])
     ELSE handle_intent(update,
            [r EXCEPT !.w = FALSE, !.classified = TRUE, !.intent = intent],
            st, intent, message)

message_handler(update, r, st) ==
  LET message == update.text
      app_ids == extractApplicationIds(message)
      intent == get_intent_from_llm(message)
  IN IF r.w /\ app_ids # <<>>
     THEN check_application_status(update, r, st, app_ids[1])
     ELSE handle_intent(update,
            [r EXCEPT !.classified = TRUE, !.intent = intent], st, intent, message)

button_handler(update, r) ==
  IF update.data = "option_1" THEN show_exgratia_norms(update, r)
  ELSE IF update.data = "option_2" THEN show_application_procedure(update, r)
  ELSE IF update.data = "option_3" THEN ask_for_application_id(update, r)
  ELSE IF update.data = "help" THEN help_command(update, r)
  ELSE IF update.data = "back_to_menu" THEN start_command(update, r)
  ELSE r

---------------------------------------------------------------------------
(* The state machine: one step per update, handled to completion.          *)

\* what the constructor finds at a content file's path
FileStates ==
  {"absent", "broken_link", "permission_denied", "is_directory", "not_utf8",
   "readable"}

\* os.path.exists(file_path): False for a missing path and a dangling link
exists(f) == f \notin {"absent", "broken_link"}

\* open(file_path, 'r', encoding='utf-8') or file.read() raises
ReadRaises(f) == f \in {"permission_denied", "is_directory", "not_utf8"}

Text_not_available == "Information not available. Please contact support."

Text_error_loading == "Error loading information. Please contact support."

\* what file.read() returns for a readable file
Text_of_file == "file content"

Returned(text) == [raised |-> FALSE, text |-> text]

\* _load_file_content without its try/except
load_file_content_no_except(f) ==
  IF exists(f)
  THEN IF ReadRaises(f) THEN [raised |-> TRUE, text |-> "-"]
       ELSE Returned(Text_of_file)
  ELSE Returned(Text_not_available)

\* SmartGovBot._load_file_content
load_file_content(f) ==
  IF exists(f)
  THEN IF ReadRaises(f) THEN Returned(Text_error_loading)
       ELSE Returned(Text_of_file)
  ELSE Returned(Text_not_available)

\* an attribute the constructor has not assigned yet
Unset == [raised |-> FALSE, text |-> "unset"]

\* the deployment with both content files in place
FilesInPlace == [norms |-> "readable", procedure |-> "readable"]

\* the constructor has run over the content files fs
Constructed(fs) ==
  /\ files = fs
  /\ exgratia_norms = load_file_content(fs.norms)
  /\ application_procedure = load_file_content(fs.procedure)

NoUpdate == [kind |-> "none", data |-> "-", text |-> <<>>]

\* what is kept of the run r of the handler of update, started with flag w
Done(update, w, r) ==
  [update |-> update, before |-> w, classified |-> r.classified,
   intent |-> r.intent, views |-> r.views, lookups |-> r.lookups,
   found |-> r.found, echoed |-> r.echoed, failure |-> r.failure,
   raised |-> r.raised]

\* the flag kept in one place for all users instead of context.user_data
Handled_shared_flag(c, update, r) ==
  /\ waiting' = [u \in Users |-> r.w]
  /\ last' = [last EXCEPT ![c] = Done(update, waiting[c], r)]
  /\ UNCHANGED <<store, files, exgratia_norms, application_procedure>>

Handled(c, update, r) ==
  /\ waiting' = [waiting EXCEPT ![c] = r.w]
  /\ last' = [last EXCEPT ![c] = Done(update, waiting[c], r)]
  /\ UNCHANGED <<store, files, exgratia_norms, application_procedure>>

Init ==
  /\ waiting = [c \in Users |-> FALSE]
  /\ store \in Stores
  /\ last = [c \in Users |-> Done(NoUpdate, FALSE, Begin(FALSE))]
  /\ Constructed(FilesInPlace)

\* CommandHandler("start", bot.start_command)
StartCommand(c) ==
  Handled(c, CommandUpdate("start"),
          start_command(CommandUpdate("start"), Begin(waiting[c])))

\* CommandHandler("help", bot.help_command)
HelpCommand(c) ==
  Handled(c, CommandUpdate("help"),
          help_command(CommandUpdate("help"), Begin(waiting[c])))

\* CallbackQueryHandler(bot.button_handler)
ButtonPressed(c) ==
  \E data \in ButtonData :
    Handled(c, CallbackUpdate(data),
            button_handler(CallbackUpdate(data), Begin(waiting[c])))

\* MessageHandler(filters.TEXT & ~filters.COMMAND, bot.message_handler)
TextMessage(c) ==
  \E text \in Texts :
    Handled(c, MessageUpdate(text),
            message_handler(MessageUpdate(text), Begin(waiting[c]), store))

Next ==
  \E c \in Users :
    \/ StartCommand(c)
    \/ HelpCommand(c)
    \/ ButtonPressed(c)
    \/ TextMessage(c)

Spec == Init /\ [][Next]_vars

---------------------------------------------------------------------------
(* The same handlers on the further messages, over one store.              *)

ProbeStore ==
  [file |-> "ok",
   rows |-> <<[application_id |-> Id_lower, amount |-> Amount_number]>>]

InitProbe ==
  /\ waiting = [c \in Users |-> FALSE]
  /\ store = ProbeStore
  /\ last = [c \in Users |-> Done(NoUpdate, FALSE, Begin(FALSE))]
  /\ Constructed(FilesInPlace)

\* MessageHandler(filters.TEXT & ~filters.COMMAND, bot.message_handler)
ProbeMessage(c) ==
  \E text \in ProbeTexts :
    Handled(c, MessageUpdate(text),
            message_handler(MessageUpdate(text), Begin(waiting[c]), store))

NextProbe == \E c \in Users : ProbeMessage(c)

SpecProbe == InitProbe /\ [][NextProbe]_vars

---------------------------------------------------------------------------
(* The constructor over every state of the two content files.              *)

InitContent ==
  /\ waiting = [c \in Users |-> FALSE]
  /\ store = ProbeStore
  /\ last = [c \in Users |-> Done(NoUpdate, FALSE, Begin(FALSE))]
  /\ files \in [norms : FileStates, procedure : FileStates]
  /\ exgratia_norms = Unset
  /\ application_procedure = Unset

\* self.exgratia_norms = self._load_file_content(Config.EXGRATIA_NORMS_FILE)
LoadNorms ==
  /\ exgratia_norms = Unset
  /\ exgratia_norms' = load_file_content(files.norms)
  /\ UNCHANGED <<waiting, store, last, files, application_procedure>>

\* self.application_procedure = self._load_file_content(...), reached only
\* when line 19 returned
LoadProcedure ==
  /\ exgratia_norms # Unset
  /\ ~exgratia_norms.raised
  /\ application_procedure = Unset
  /\ application_procedure' = load_file_content(files.procedure)
  /\ UNCHANGED <<waiting, store, last, files, exgratia_norms>>

NextContent == LoadNorms \/ LoadProcedure

SpecContent == InitContent /\ [][NextContent]_vars

---------------------------------------------------------------------------
(* Vocabulary of the properties.                                           *)

IsText(e) == e.update.kind = "message"

IsButton(e, data) == e.update = CallbackUpdate(data)

IsCommand(e, name) == e.update = CommandUpdate(name)

\* the IDs the extractor yields on the text of e
IdsIn(e) == extractApplicationIds(e.update.text)

ViewNames(e) == [i \in 1..Len(e.views) |-> e.views[i].name]

StatusViews == {"status_found", "status_not_found", "status_error"}

\* e is a free-text message received in Idle, classified status_check, with
\* no application ID in it
PromptedByText(e) ==
  /\ IsText(e)
  /\ ~e.before
  /\ get_intent_from_llm(e.update.text) = "status_check"
  /\ IdsIn(e) = <<>>

---------------------------------------------------------------------------
\* one step of user c, seen from a state where c has just been prompted
C1_PromptThenIdStep(c) ==
  /\ PromptedByText(last[c]) =>
       /\ waiting[c]
       /\ ViewNames(last[c]) = <<"status_prompt">>
       /\ last[c].lookups = <<>>
  /\ ( /\ PromptedByText(last[c])
       /\ last'[c] # last[c]
       /\ IsText(last'[c])
       /\ IdsIn(last'[c]) # <<>> ) =>
       /\ ~waiting'[c]
       /\ last'[c].lookups = <<IdsIn(last'[c])[1]>>
       /\ (last'[c].update.text = Msg_id => last'[c].lookups = <<Id_upper>>)

(* C1: after a status_check text without ID received in Idle the user is   *)
(* awaited and has been shown the ID prompt; when the next update of that  *)
(* user is a text with an ID token ("23LDM786"), it ends in Idle with      *)
(* exactly one lookup, of that token.                                      *)

C1_PromptThenId == [][\A c \in Users : C1_PromptThenIdStep(c)]_vars

C1_Witness ==
  \E c \in Users :
    /\ last[c].update = MessageUpdate(Msg_id)
    /\ last[c].before
    /\ last[c].lookups = <<Id_upper>>
    /\ ~waiting[c]

(* C2: a text received while awaited that holds at least one ID is not     *)
(* classified; the first ID is looked up once, one status view is sent and *)
(* the user is Idle afterwards.                                            *)

C2_AwaitedIdConsumed ==
  \A c \in Users :
    (IsText(last[c]) /\ last[c].before /\ IdsIn(last[c]) # <<>>) =>
      /\ ~last[c].classified
      /\ last[c].lookups = <<IdsIn(last[c])[1]>>
      /\ Len(last[c].views) = 1
      /\ last[c].views[1].name \in StatusViews
      /\ ~last[c].raised
      /\ ~waiting[c]

C2_Witness ==
  \E c \in Users :
    /\ last[c].update = MessageUpdate(Msg_track_two)
    /\ last[c].before
    /\ last[c].lookups = <<Id_upper>>
    /\ ViewNames(last[c]) = <<"status_found">>
    /\ ~waiting[c]

(* C3: after the back_to_menu button the user is Idle and the welcome/menu *)
(* view was rendered.                                                      *)

C3_BackToMenuIdle ==
  \A c \in Users :
    IsButton(last[c], "back_to_menu") =>
      /\ ~waiting[c]
      /\ ViewNames(last[c]) = <<"welcome">>

\* the top-level events other than the awaited ID
OtherTopLevelEvent(e) ==
  \/ IsButton(e, "option_1")
  \/ IsButton(e, "option_2")
  \/ IsButton(e, "help")
  \/ IsCommand(e, "start")
  \/ IsCommand(e, "help")
  \/ /\ IsText(e)
     /\ IdsIn(e) = <<>>
     /\ get_intent_from_llm(e.update.text) # "status_check"

(* C4: a top-level event other than the awaited ID, received while         *)
(* awaited, leaves the user Idle.                                          *)

C4_WaitAbandoned ==
  \A c \in Users :
    (last[c].before /\ OtherTopLevelEvent(last[c])) => ~waiting[c]

(* C5: every update is handled without an exception leaving the handler    *)
(* and renders at least one view; the help button renders the help view    *)
(* and the back_to_menu button the welcome/menu view.                      *)

C5_EveryEventRenders ==
  \A c \in Users :
    last[c].update.kind # "none" =>
      /\ ~last[c].raised
      /\ last[c].views # <<>>
      /\ IsButton(last[c], "help") => ViewNames(last[c]) = <<"help">>
      /\ IsButton(last[c], "back_to_menu") => ViewNames(last[c]) = <<"welcome">>

(* C6: after the option_3 button, from Idle or from awaited, the user is   *)
(* awaited, the status prompt was rendered and nothing was looked up.      *)

C6_CheckStatusButton ==
  \A c \in Users :
    IsButton(last[c], "option_3") =>
      /\ waiting[c]
      /\ ViewNames(last[c]) = <<"status_prompt">>
      /\ last[c].lookups = <<>>
      /\ ~last[c].raised

C6_Witness ==
  \E c \in Users :
    /\ IsButton(last[c], "option_3")
    /\ last[c].before
    /\ waiting[c]
    /\ ViewNames(last[c]) = <<"status_prompt">>

(* C7: a text without ID received while awaited leaves the user awaited,   *)
(* whatever its intent and view, and nothing is looked up.                 *)

C7_NoIdStaysAwaited ==
  \A c \in Users :
    (IsText(last[c]) /\ last[c].before /\ IdsIn(last[c]) = <<>>) =>
      /\ waiting[c]
      /\ last[c].lookups = <<>>

C7_Witness ==
  \E c \in Users :
    /\ last[c].update = MessageUpdate(Msg_hello)
    /\ last[c].before
    /\ ViewNames(last[c]) = <<"welcome">>
    /\ waiting[c]

(* C8: a status_check text received in Idle: with an ID, the first ID is   *)
(* looked up, its result view is sent and the user stays Idle; without,    *)
(* the user becomes awaited and gets the prompt, with no lookup.           *)

C8_IdleStatusCheck ==
  \A c \in Users :
    ( /\ IsText(last[c])
      /\ ~last[c].before
      /\ get_intent_from_llm(last[c].update.text) = "status_check" ) =>
      IF IdsIn(last[c]) # <<>>
      THEN /\ last[c].lookups = <<IdsIn(last[c])[1]>>
           /\ Len(last[c].views) = 1
           /\ last[c].views[1].name \in StatusViews
           /\ ~waiting[c]
      ELSE /\ last[c].lookups = <<>>
           /\ ViewNames(last[c]) = <<"status_prompt">>
           /\ waiting[c]

C8_Witness ==
  \E c \in Users :
    /\ last[c].update = MessageUpdate(Msg_track_two)
    /\ ~last[c].before
    /\ last[c].lookups = <<Id_upper>>
    /\ ViewNames(last[c]) = <<"status_not_found">>
    /\ ~waiting[c]

\* the view the dispatch table of the specification gives an intent
ViewOfIntent(intent) ==
  CASE intent = "greeting" -> "welcome"
    [] intent = "exgratia_norms" -> "norms"
    [] intent \in {"application_procedure", "apply_start"} -> "procedure"
    [] intent = "help" -> "help"
    [] intent = "other" -> "fallback"

\* the dispatch of an intent on a message update of an Idle user
IdleDispatch(intent, text) ==
  handle_intent(MessageUpdate(text), Begin(FALSE), store, intent, text)

(* C9: a text received in Idle is answered by the view of its intent:      *)
(* greeting -> welcome, exgratia_norms -> norms, application_procedure or  *)
(* apply_start -> procedure, help -> help, other -> fallback; the user     *)
(* stays Idle and nothing is looked up.                                    *)

C9_IdleDispatch ==
  \A c \in Users :
    (IsText(last[c]) /\ ~last[c].before) =>
      /\ get_intent_from_llm(last[c].update.text) # "status_check" =>
           /\ ViewNames(last[c]) =
                <<ViewOfIntent(get_intent_from_llm(last[c].update.text))>>
           /\ last[c].lookups = <<>>
           /\ ~waiting[c]
      \* apply_start, which the classifier never yields, on the same message
      /\ LET r == IdleDispatch("apply_start", last[c].update.text) IN
           /\ [i \in 1..Len(r.views) |-> r.views[i].name]
                = <<ViewOfIntent("apply_start")>>
           /\ r.lookups = <<>>
           /\ ~r.w

C9_Witness ==
  \E c \in Users :
    /\ last[c].update = MessageUpdate(Msg_money_id)
    /\ ~last[c].before
    /\ ViewNames(last[c]) = <<"norms">>
    /\ last[c].lookups = <<>>
    /\ ~waiting[c]

\* the first record of the store matching app_id, if any
MatchedRecords(st, app_id) ==
  {i \in 1..Len(st.rows) :
     /\ upper(st.rows[i].application_id) = upper(app_id)
     /\ \A j \in 1..(i - 1) : upper(st.rows[j].application_id) # upper(app_id)}

StoreFails(st, app_id) ==
  \/ st.file # "ok"
  \/ \E i \in MatchedRecords(st, app_id) : ~AllDigits(st.rows[i].amount)

(* C10: when the store cannot be read or parsed by a lookup (file missing, *)
(* unreadable or malformed, amount of the matched record not a number),    *)
(* the view is the generic error view, neither found nor not-found, and    *)
(* the handler returns normally.                                           *)

---------------------------------------------------------------------------
(* C11: on a store that can be read and parsed, a lookup renders the found *)
(* view with the first row whose application_id equals the queried ID      *)
(* ignoring case when there is one, and otherwise the not-found view with  *)
(* the queried ID.                                                         *)

C11_FoundIffMatch ==
  \A c \in Users :
    (last[c].lookups # <<>> /\ ~StoreFails(store, last[c].lookups[1])) =>
      LET app_id == last[c].lookups[1]
          hits == MatchedRecords(store, app_id)
      IN IF hits # {}
         THEN /\ ViewNames(last[c]) = <<"status_found">>
              /\ \E i \in hits : last[c].found = <<store.rows[i]>>
         ELSE /\ ViewNames(last[c]) = <<"status_not_found">>
              /\ last[c].echoed = <<app_id>>

---------------------------------------------------------------------------
\* the rule groups of the classifier, in their priority order
RuleGroups ==
  <<"greeting", "exgratia_norms", "application_procedure", "status_check",
    "help">>

\* the rule group g has a match in the lower-cased text m
GroupMatches(g, m) ==
  CASE g = "greeting" -> AnyIn(greeting_words, m)
    [] g = "exgratia_norms" -> AnyIn(norms_phrases, m)
    [] g = "application_procedure" -> AnyIn(procedure_phrases, m)
    [] g = "status_check" -> AnyIn(status_phrases, m) \/ SearchIdToken(m)
    [] g = "help" -> AnyIn(help_words, m)

(* C12: the intent of a classified text is the first rule group, in the    *)
(* order greeting, exgratia_norms, application_procedure, status_check,    *)
(* help, that has a match; no later group overrides it.                    *)

C12_FirstGroupWins ==
  \A c \in Users :
    last[c].classified =>
      \A k \in 1..Len(RuleGroups) :
        ( /\ GroupMatches(RuleGroups[k], lower(last[c].update.text))
          /\ \A j \in 1..(k - 1) :
               ~GroupMatches(RuleGroups[j], lower(last[c].update.text)) )
          => last[c].intent = RuleGroups[k]

C12_Witness ==
  \E c \in Users :
    /\ last[c].update = MessageUpdate(Msg_elig_apply)
    /\ last[c].classified
    /\ AnyIn(norms_phrases, lower(Msg_elig_apply))
    /\ AnyIn(procedure_phrases, lower(Msg_elig_apply))
    /\ last[c].intent = "exgratia_norms"

---------------------------------------------------------------------------
\* what the help and fallback texts advertise for their example messages
AdvertisedHandling(e) ==
  /\ e.update.text = Msg_help_status_id =>
       /\ e.lookups = <<Id_upper>>
       /\ Len(e.views) = 1
       /\ e.views[1].name \in StatusViews
  /\ e.update.text = Msg_fallback_status =>
       /\ ViewNames(e) = <<"status_prompt">>
       /\ e.lookups = <<>>
  /\ e.update.text = Msg_help_money => ViewNames(e) = <<"norms">>
  /\ e.update.text = Msg_help_documents => ViewNames(e) = <<"procedure">>

(* C13: sent in Idle, the example messages of the help and fallback views  *)
(* get the advertised feature: "Check status of application 23LDM786" a    *)
(* lookup of 23LDM786, "Check my application status" the status prompt,    *)
(* "How much money can I get for house damage?" the norms view and "What   *)
(* documents do I need to apply?" the procedure view.                      *)

C13_ExamplesWork ==
  \A c \in Users :
    (IsText(last[c]) /\ ~last[c].before) => AdvertisedHandling(last[c])

---------------------------------------------------------------------------
(* C14: the extractor applied to "My id is 23LDM786, thanks" yields        *)
(* exactly <<"23LDM786">>; the ordinary words of the message are not       *)
(* returned as application IDs.                                            *)

C14_OnlyTheId ==
  \A c \in Users :
    last[c].update = MessageUpdate(Msg_my_id_thanks) =>
      IdsIn(last[c]) = <<Id_upper>>

---------------------------------------------------------------------------
\* an alphanumeric character of an application ID: a letter A-Z, a-z or a digit
IsAlnum(c) == IsLower(c) \/ IsUpper(c) \/ c \in Digits

AlnumAt(s, p) == p >= 1 /\ p <= Len(s) /\ IsAlnum(s[p])

\* the maximal alphanumeric runs of s, as <<first position, length>>: bounded
\* on both sides by a non-alphanumeric character or an end of the text
MaximalRuns(s) ==
  {run \in (1..Len(s)) \X (1..Len(s)) :
     /\ run[1] + run[2] - 1 <= Len(s)
     /\ \A k \in run[1]..(run[1] + run[2] - 1) : IsAlnum(s[k])
     /\ ~AlnumAt(s, run[1] - 1)
     /\ ~AlnumAt(s, run[1] + run[2])}

RunText(s, run) == SubSeq(s, run[1], run[1] + run[2] - 1)

SeqToSet(q) == {q[i] : i \in 1..Len(q)}

(* C15: a maximal alphanumeric run of length 5 or 13 is not extracted,     *)
(* neither whole nor as a sub-run of 6 to 12 characters; a maximal run of  *)
(* length 6 or 12 is extracted whole.                                      *)

C15_LengthBoundary ==
  \A c \in Users :
    IsText(last[c]) =>
      LET s == last[c].update.text
          ids == SeqToSet(IdsIn(last[c]))
      IN \A run \in MaximalRuns(s) :
           /\ run[2] \in {MinIdLen - 1, MaxIdLen + 1} =>
                \A id \in ids : ~Contains(upper(RunText(s, run)), id)
           /\ run[2] \in {MinIdLen, MaxIdLen} =>
                upper(RunText(s, run)) \in ids

---------------------------------------------------------------------------
\* length of the alphanumeric run of s that starts at position i
RECURSIVE RunLenFrom(_, _)
RunLenFrom(s, i) == IF AlnumAt(s, i) THEN 1 + RunLenFrom(s, i + 1) ELSE 0

\* the maximal alphanumeric runs of 6 to 12 characters of s from position i
\* on, upper-cased, from left to right
RECURSIVE RunsOfIdLength(_, _)
RunsOfIdLength(s, i) ==
  IF i > Len(s) THEN <<>>
  ELSE IF ~AlnumAt(s, i) THEN RunsOfIdLength(s, i + 1)
  ELSE LET n == RunLenFrom(s, i) IN
       IF n >= MinIdLen /\ n <= MaxIdLen
       THEN <<upper(SubSeq(s, i, i + n - 1))>> \o RunsOfIdLength(s, i + n)
       ELSE RunsOfIdLength(s, i + n)

(* C16: the extractor returns, upper-cased and from left to right, all and *)
(* only the runs of 6 to 12 alphanumeric characters bounded on both sides  *)
(* by a non-alphanumeric character (the underscore included) or an end of  *)
(* the text; the empty sequence when there is none.                        *)

C16_AllAndOnlyRuns ==
  \A c \in Users :
    IsText(last[c]) => IdsIn(last[c]) = RunsOfIdLength(last[c].update.text, 1)

---------------------------------------------------------------------------
\* two handled updates that classified the same text got the same intent
SameTextSameIntent(e1, e2) ==
  (e1.classified /\ e2.classified /\ e1.update.text = e2.update.text) =>
    e1.intent = e2.intent

(* C17: classification is deterministic and stateless: the same text gets  *)
(* the same intent whenever and for whomever it is classified, whatever    *)
(* the state of the conversations and the updates handled in between.      *)

C17_ClassifyStateless ==
  [][\A c1, c2 \in Users :
       /\ SameTextSameIntent(last[c1], last'[c2])
       /\ SameTextSameIntent(last'[c1], last'[c2])]_vars

C17_Witness ==
  \E c1, c2 \in Users :
    /\ last[c1].update = MessageUpdate(Msg_hello)
    /\ last[c2].update = MessageUpdate(Msg_hello)
    /\ last[c1].classified /\ last[c2].classified
    /\ last[c1].before /\ ~last[c2].before
    /\ waiting[c1] /\ ~waiting[c2]
    /\ last[c1].intent = last[c2].intent

---------------------------------------------------------------------------
\* the intent of e is that of its text in upper case, in lower case and with
\* the case of every letter exchanged
SameIntentInAnyCase(e) ==
  /\ e.intent = fallback_intent_detection(upper(e.update.text))
  /\ e.intent = fallback_intent_detection(lower(e.update.text))
  /\ e.intent = fallback_intent_detection(swapcase(e.update.text))

\* a text of ASCII characters
IsAsciiText(s) == \A i \in 1..Len(s) : s[i] \notin {Eszett, Kelvin}

(* C18, as stated: classification is case-insensitive for every text: the  *)
(* intent of a text is that of the text with its letters changed to the    *)
(* other case, the ID-token test included.                                 *)

C18_CaseInsensitive ==
  \A c \in Users : last[c].classified => SameIntentInAnyCase(last[c])

(* C18, amended: classification is case-insensitive for every text of      *)
(* ASCII characters, the ID-token test included.                           *)

C18_CaseInsensitiveAscii ==
  \A c \in Users :
    (last[c].classified /\ IsAsciiText(last[c].update.text)) =>
      SameIntentInAnyCase(last[c])

C18_Witness ==
  \E c \in Users :
    /\ last[c].update = MessageUpdate(Msg_my_id_thanks)
    /\ last[c].classified
    /\ last[c].intent = "status_check"
    /\ upper(Msg_my_id_thanks) # Msg_my_id_thanks
    /\ lower(Msg_my_id_thanks) # Msg_my_id_thanks
    /\ fallback_intent_detection(upper(Msg_my_id_thanks)) = "status_check"

---------------------------------------------------------------------------
(* C19: the classifier the dialog uses, get_intent_from_llm, returns for   *)
(* every message the intent of the rule-based classifier, and no failure   *)
(* of a remote model leaves it: the handler of a classified text raises    *)
(* nothing and renders the view of that intent.                            *)

C19_RulesDecide ==
  \A c \in Users :
    last[c].classified =>
      /\ last[c].intent = fallback_intent_detection(last[c].update.text)
      /\ ~last[c].raised
      /\ last[c].views # <<>>

C19_Witness ==
  \E c \in Users :
    /\ last[c].update = MessageUpdate(Msg_apply)
    /\ last[c].classified
    /\ last[c].intent = "application_procedure"
    /\ ViewNames(last[c]) = <<"procedure">>

---------------------------------------------------------------------------
\* the step touches the flag and the record of at most one user
TouchesOneUser ==
  \E a \in Users :
    \A b \in Users \ {a} : waiting'[b] = waiting[b] /\ last'[b] = last[b]

\* two users that handled the same update from the same flag value got the
\* same views, lookups and flag, whatever the other user did meanwhile
SameRunSameResult ==
  \A c1, c2 \in Users :
    ( /\ last'[c1].update = last'[c2].update
      /\ last'[c1].before = last'[c2].before ) =>
      /\ last'[c1] = last'[c2]
      /\ waiting'[c1] = waiting'[c2]

(* C20: the dialog state is isolated per user: handling an update of one   *)
(* user leaves the awaiting flag of every other user unchanged, and under  *)
(* any interleaving each user gets the states and views it would get       *)
(* alone.                                                                  *)

C20_Isolated == [][TouchesOneUser /\ SameRunSameResult]_vars

C20_Witness ==
  \E c1, c2 \in Users :
    /\ c1 # c2
    /\ IsButton(last[c1], "option_3")
    /\ waiting[c1]
    /\ last[c2].update = MessageUpdate(Msg_id)
    /\ last[c2].before
    /\ last[c2].lookups = <<Id_upper>>
    /\ ~waiting[c2]

---------------------------------------------------------------------------
\* the attributes the constructor has assigned, with the file each was read from
Loaded ==
  { p \in { <<files.norms, exgratia_norms>>,
            <<files.procedure, application_procedure>> } : p[2] # Unset }

(* C21: reading a content text never raises, and returns the same fixed    *)
(* string "Information not available..." both when the file is absent and  *)
(* when it exists but cannot be read.                                      *)

C21_SameFallback ==
  \A p \in Loaded :
    /\ ~p[2].raised
    /\ p[1] # "readable" => p[2].text = Text_not_available

(* C21, amended: reading a content text never raises; it returns           *)
(* "Information not available..." when the path does not exist, "Error     *)
(* loading information..." when it exists but cannot be read, and the      *)
(* file's text otherwise.                                                  *)

C21_FallbackPerCause ==
  \A p \in Loaded :
    /\ ~p[2].raised
    /\ ~exists(p[1]) => p[2].text = Text_not_available
    /\ (exists(p[1]) /\ ReadRaises(p[1])) => p[2].text = Text_error_loading
    /\ p[1] = "readable" => p[2].text = Text_of_file

C21_Witness ==
  /\ files.norms = "absent"
  /\ files.procedure = "permission_denied"
  /\ exgratia_norms.text = Text_not_available
  /\ application_procedure.text = Text_error_loading

---------------------------------------------------------------------------
(* C22: every invocation of the status lookup leaves the user Idle, for    *)
(* each of its outcomes (found, not found, store failure) and whether it   *)
(* was invoked while the ID was awaited or from Idle: no lookup outcome    *)
(* leaves the awaiting flag set.                                           *)

C22_LookupLeavesIdle ==
  \A c \in Users : last[c].lookups # <<>> => ~waiting[c]

C22_Witness ==
  \E c \in Users :
    /\ last[c].before
    /\ last[c].lookups # <<>>
    /\ last[c].failure # "none"
    /\ ViewNames(last[c]) = <<"status_error">>
    /\ ~waiting[c]

---------------------------------------------------------------------------
\* the step sets the flag of user c only while rendering the status prompt,
\* for the option_3 button or for a status_check text without an ID
SetOnlyWithPrompt(c) ==
  (~waiting[c] /\ waiting'[c]) =>
    /\ ViewNames(last'[c]) = <<"status_prompt">>
    /\ IsButton(last'[c], "option_3") \/ PromptedByText(last'[c])

\* the step clears the flag of user c only while performing a status lookup
ClearedOnlyByLookup(c) ==
  (waiting[c] /\ ~waiting'[c]) => last'[c].lookups # <<>>

(* C23: a user becomes awaited only in a step that renders the status      *)
(* prompt (option_3 button, or status_check text with no ID) and stops     *)
(* being awaited only in a step that performs a status lookup; no other    *)
(* event changes the awaiting flag.                                        *)

C23_FlagChanges ==
  [][\A c \in Users : SetOnlyWithPrompt(c) /\ ClearedOnlyByLookup(c)]_vars

C23_Witness ==
  \E c1, c2 \in Users :
    /\ PromptedByText(last[c1])
    /\ ViewNames(last[c1]) = <<"status_prompt">>
    /\ waiting[c1]
    /\ last[c2].before
    /\ last[c2].lookups # <<>>
    /\ ~waiting[c2]

---------------------------------------------------------------------------
\* the classifier's token test on the text of e
HasIdToken(e) == SearchIdToken(lower(e.update.text))

\* the text of e holds one of the status phrases
HasStatusPhrase(e) == AnyIn(status_phrases, lower(e.update.text))

\* e is the handling of a text from Idle that was classified status_check
IdleStatusText(e) ==
  /\ IsText(e)
  /\ ~e.before
  /\ e.classified
  /\ e.intent = "status_check"

(* C24: the classifier's token test and the ID extractor agree: from Idle,  *)
(* a text classified status_check only for its 6-12 character alphanumeric *)
(* token (no status phrase) has a non-empty extraction, gets the lookup of  *)
(* its first token at once and never the status prompt; the status prompt  *)
(* is reached from a text only when it holds a status phrase and no token. *)

C24_TokenTestsAgree ==
  \A c \in Users :
    IdleStatusText(last[c]) =>
      /\ (HasIdToken(last[c]) /\ ~HasStatusPhrase(last[c])) =>
           /\ IdsIn(last[c]) # <<>>
           /\ last[c].lookups = <<IdsIn(last[c])[1]>>
           /\ "status_prompt" \notin SeqToSet(ViewNames(last[c]))
      /\ "status_prompt" \in SeqToSet(ViewNames(last[c])) =>
           HasStatusPhrase(last[c]) /\ ~HasIdToken(last[c])

---------------------------------------------------------------------------
\* the labels the rules can return
RuleIntents ==
  {"greeting", "exgratia_norms", "application_procedure", "status_check",
   "help", "other"}

(* C25: the classifier answers every text, and always with one of          *)
(* greeting, exgratia_norms, application_procedure, status_check, help,    *)
(* other; it never answers apply_start, so the procedure view is rendered  *)
(* for a text only under the intent application_procedure.                 *)

C25_ClassifyRange ==
  \A c \in Users :
    /\ (IsText(last[c]) /\ last[c].lookups = <<>>) => last[c].classified
    /\ last[c].classified =>
         /\ last[c].intent \in RuleIntents
         /\ last[c].intent # "apply_start"
         /\ "procedure" \in SeqToSet(ViewNames(last[c])) =>
              last[c].intent = "application_procedure"

C25_Witness ==
  \E c1, c2 \in Users :
    /\ last[c1].update = MessageUpdate(Msg_apply)
    /\ last[c1].before
    /\ last[c1].intent = "application_procedure"
    /\ ViewNames(last[c1]) = <<"procedure">>
    /\ last[c2].update = MessageUpdate(Msg_ok)
    /\ last[c2].intent = "other"

============================================================================
